---- MODULE Spec2Model ----
(***************************************************************************)
(* Conjunction validation engine of kendragraph.                           *)
(*                                                                         *)
(*   MatchSpec : backend/validation_engine/pair_matcher.py, match()        *)
(*   RunSpec   : backend/validation_engine/validator_service.py,           *)
(*               run_validation()                                          *)
(*   ConcSpec  : the persistence block of run_validation() run by several  *)
(*               processes, and GET /v1/validation/metrics                 *)
(*   MetricsSpec : backend/validation_engine/metrics_calculator.py,        *)
(*               compute_metrics()                                         *)
(*   PairsSpec : engine/fast_pairs.py, min_distance_over_window()          *)
(*   ScoreSpec : engine/score_baseline.py, apply_baseline()                *)
(*   TzSpec    : the timestamps of run_validation() on a host whose local  *)
(*               time zone need not be UTC                                 *)
(*                                                                         *)
(* Python values are encoded as follows.  None is the integer -1 wherever  *)
(* the field otherwise holds a non-negative number (a time in seconds, a   *)
(* distance, a message id, a coerced catalog id).  A raw catalog id, which *)
(* may be of any Python type, is a record [k, v]:                          *)
(*   k = "int"    the integer v                                            *)
(*   k = "float"  the non-integral number v + 0.5                          *)
(*   k = "numstr" the text str(v)                                          *)
(*   k = "badstr" a non-empty text that int() rejects                      *)
(*   k = "none"   None / key absent                                        *)
(***************************************************************************)
EXTENDS Integers, Sequences, FiniteSets, TLC

VARIABLES
    pc,               \* position of the call
    preds,            \* match(): preds argument
    cdms,             \* match(): cdms argument
    tca_window_s,     \* match(): tca_window_s
    dist_window_km,   \* match(): dist_window_km
    results,          \* match(): returned list
    creds,            \* run_validation(): ST_USERNAME and ST_PASSWORD are set
    items,            \* run_validation(): what fetch_cdm_public_json returned
    idx,              \* run_validation(): position of the normalization loop in items
    note,             \* run_validation(): note
    fetch_status,     \* how the ground-truth fetch step has gone (history)
    run_file,         \* lines of this run's logs/validation/runs/<stamp>.jsonl
    latest,           \* content of logs/validation/summary/latest.json
    returned,         \* what run_validation() returned
    error,            \* the step whose exception left run_validation()
    now,              \* concurrent runs: dt.datetime.utcnow(), in whole seconds
    wpc,              \* concurrent runs: position of each run in its persistence block
    stamp,            \* concurrent runs: the second each run put in its run_file name
    w_matches,        \* concurrent runs: number of match results of each run
    w_note,           \* concurrent runs: whether each run's summary has a note
    runs_dir,         \* files of logs/validation/runs/, by the second in their name
    latest_json,      \* bytes of logs/validation/summary/latest.json
    seen,             \* what GET /v1/validation/metrics read
    cm_matches,       \* compute_metrics(): matches argument
    cm_metrics,       \* compute_metrics(): returned dict
    positions,        \* min_distance_over_window(): positions_table at each step
    radius_km,        \* min_distance_over_window(): radius_km
    pairs,            \* min_distance_over_window(): returned frame
    df_pairs,         \* apply_baseline(): df_pairs argument
    risk_threshold_km,\* apply_baseline(): risk_threshold_km
    scored,           \* apply_baseline(): returned frame
    pred_store,       \* lines of the files of logs/predictions/
    host_tz,          \* time zones: UTC offset of the host's local zone, in hours
    tz_in,            \* time zones: the timestamps that enter run_validation()
    bounds_utc,       \* time zones: start and end after lines 107-116
    pred_loaded,      \* time zones: the stored prediction's tca_utc if it was loaded
    cdm_norm          \* time zones: the normalized item's tca_utc

matchVars == <<preds, cdms, tca_window_s, dist_window_km, results>>

runVars == <<creds, items, idx, note, fetch_status, run_file, latest, returned, error>>

concVars == <<now, wpc, stamp, w_matches, w_note, runs_dir, latest_json, seen>>

metricsVars == <<cm_matches, cm_metrics>>

pairsVars == <<positions, radius_km, pairs>>

scoreVars == <<df_pairs, risk_threshold_km, scored, pred_store>>

tzVars == <<host_tz, tz_in, bounds_utc, pred_loaded, cdm_norm>>

engineVars == <<concVars, metricsVars, pairsVars, scoreVars, tzVars>>

vars == <<pc, matchVars, runVars, engineVars>>

None == -1

\* a timestamp text that datetime.fromisoformat rejects
BadIso == -2

\* the outcome of a conversion that raises
Raises == -3

Abs(x) == IF x < 0 THEN -x ELSE x

\* ------------------------------------------------------------ bounds
\* total number of records (predictions plus ground truth) given to match()
MaxRecords == 3

\* ------------------------------------------------------------ raw values
IntV(n) == [k |-> "int", v |-> n]
FloatV(n) == [k |-> "float", v |-> n]
NumStr(n) == [k |-> "numstr", v |-> n]
BadStr == [k |-> "badstr", v |-> 0]
NoneV == [k |-> "none", v |-> 0]

\* Python truthiness of a raw value (the operand of `or`)
Truthy(x) ==
    CASE x.k = "int" -> x.v # 0
      [] x.k = "float" -> TRUE
      [] x.k = "numstr" -> TRUE
      [] x.k = "badstr" -> TRUE
      [] OTHER -> FALSE

\* x or y
PyOr(x, y) == IF Truthy(x) THEN x ELSE y

\* ------------------------------------------------------------ pair_matcher.py
\* _as_int: int(x), None when int() raises
as_int(x) ==
    CASE x.k = "int" -> x.v
      [] x.k = "float" -> x.v
      [] x.k = "numstr" -> x.v
      [] OTHER -> None

\* _valid_pair: both are ints (None is not)
valid_pair_either(a, b) == a # None \/ b # None

valid_pair(a, b) == a # None /\ b # None

\* _key
key_unsorted(a, b) == <<a, b>>

key(a, b) == IF a <= b THEN <<a, b>> ELSE <<b, a>>

\* the sanitized copy of a prediction (lines 23-30); idx is the identity of
\* the dict: its position in the preds argument
clean_pred(p, i) ==
    [idx |-> i,
     norad_id_a |-> as_int(PyOr(p.norad_id_a, p.norad_a)),
     norad_id_b |-> as_int(PyOr(p.norad_id_b, p.norad_b)),
     tca_utc |-> p.tca_utc,
     min_dist_km |-> p.min_dist_km]

\* the sanitized copy of a ground-truth record (lines 34-41)
clean_cdm(c, i) ==
    [idx |-> i,
     cdm_id |-> c.cdm_id,
     norad_primary |-> as_int(c.norad_primary),
     norad_secondary |-> as_int(c.norad_secondary),
     tca_utc |-> c.tca_utc,
     miss_distance_km |-> c.miss_distance_km]

\* ---- sanitize inputs ---- (lines 21-30)
sanitize_preds(ps) ==
    LET F[i \in 0..Len(ps)] ==
            IF i = 0 THEN <<>>
            ELSE LET p == clean_pred(ps[i], i)
                 IN  IF ~valid_pair(p.norad_id_a, p.norad_id_b) \/ p.tca_utc = None
                     THEN F[i - 1]
                     ELSE Append(F[i - 1], p)
    IN  F[Len(ps)]

\* (lines 32-41)
sanitize_cdms(cs) ==
    LET F[i \in 0..Len(cs)] ==
            IF i = 0 THEN <<>>
            ELSE LET c == clean_cdm(cs[i], i)
                 IN  IF ~valid_pair(c.norad_primary, c.norad_secondary) \/ c.tca_utc = None
                     THEN F[i - 1]
                     ELSE Append(F[i - 1], c)
    IN  F[Len(cs)]

pred_key(p) == key(p.norad_id_a, p.norad_id_b)

cdm_key(c) == key(c.norad_primary, c.norad_secondary)

\* ---- index CDMs by pair ---- (lines 44-47): each key's records, in input order
index_by_pair(clean_cdms) ==
    [k \in {cdm_key(clean_cdms[i]) : i \in 1..Len(clean_cdms)} |->
        SelectSeq(clean_cdms, LAMBDA c : cdm_key(c) = k)]

\* by_pair.get(k, [])
get_candidates(by_pair, k) == IF k \in DOMAIN by_pair THEN by_pair[k] ELSE <<>>

\* best = None
NoCdm ==
    [idx |-> 0, cdm_id |-> None, norad_primary |-> None, norad_secondary |-> None,
     tca_utc |-> None, miss_distance_km |-> None]

\* dt_err <= twin (line 57)
in_window_always(dt_err, twin) == TRUE

in_window(dt_err, twin) == dt_err <= twin

\* a later candidate at the same time difference replaces the earlier one
closer_or_equal(dt_err, best_dt) == dt_err <= best_dt

\* dt_err < best_dt (line 57)
closer(dt_err, best_dt) == dt_err < best_dt

\* the candidate loop (lines 54-58)
nearest(p, candidates, twin) ==
    LET F[i \in 0..Len(candidates)] ==
            IF i = 0 THEN [best |-> NoCdm, best_dt |-> None]
            ELSE LET c == candidates[i]
                     dt_err == Abs(p.tca_utc - c.tca_utc)
                     prev == F[i - 1]
                 IN  IF in_window(dt_err, twin)
                        /\ (prev.best = NoCdm \/ closer(dt_err, prev.best_dt))
                     THEN [best |-> c, best_dt |-> dt_err]
                     ELSE prev
    IN  F[Len(candidates)].best

\* no distance filter
dist_filter_off(p, best, dwin) == best

\* optional distance filter (lines 61-63)
dist_filter(p, best, dwin) ==
    IF best # NoCdm /\ p.min_dist_km # None /\ best.miss_distance_km # None
       /\ Abs(p.min_dist_km - best.miss_distance_km) > dwin
    THEN NoCdm
    ELSE best

\* the body of the prediction loop up to the choice of best (lines 52-63);
\* matched_cdm_ids is in scope there and is not read
match_step_consuming(p, by_pair, matched_cdm_ids, twin, dwin) ==
    dist_filter(p,
        nearest(p,
            SelectSeq(get_candidates(by_pair, pred_key(p)),
                      LAMBDA c : c.cdm_id \notin matched_cdm_ids),
            twin),
        dwin)

match_step(p, by_pair, matched_cdm_ids, twin, dwin) ==
    dist_filter(p, nearest(p, get_candidates(by_pair, pred_key(p)), twin), dwin)

\* the result appended for a prediction (lines 65-69)
emit(p, best) ==
    IF best # NoCdm
    THEN [type |-> "TP", pred |-> p.idx, cdm |-> best.idx]
    ELSE [type |-> "FP", pred |-> p.idx, cdm |-> 0]

\* ---- greedy nearest-time match ---- (lines 50-69)
match_loop(clean_preds, by_pair, twin, dwin) ==
    LET F[i \in 0..Len(clean_preds)] ==
            IF i = 0 THEN [results |-> <<>>, matched_cdm_ids |-> {}]
            ELSE LET p == clean_preds[i]
                     prev == F[i - 1]
                     best == match_step(p, by_pair, prev.matched_cdm_ids, twin, dwin)
                 IN  [results |-> Append(prev.results, emit(p, best)),
                      matched_cdm_ids |->
                          IF best # NoCdm
                          THEN prev.matched_cdm_ids \cup {best.cdm_id}
                          ELSE prev.matched_cdm_ids]
    IN  F[Len(clean_preds)]

\* the FN condition (line 74)
is_fn_any_pair(c, matched_cdm_ids, pred_pairs) == c.cdm_id \notin matched_cdm_ids

is_fn(c, matched_cdm_ids, pred_pairs) ==
    c.cdm_id \notin matched_cdm_ids /\ cdm_key(c) \in pred_pairs

\* ---- FNs ---- (lines 72-75)
fn_results(clean_preds, clean_cdms, matched_cdm_ids) ==
    LET pred_pairs == {pred_key(clean_preds[i]) : i \in 1..Len(clean_preds)}
        F[i \in 0..Len(clean_cdms)] ==
            IF i = 0 THEN <<>>
            ELSE IF is_fn(clean_cdms[i], matched_cdm_ids, pred_pairs)
                 THEN Append(F[i - 1], [type |-> "FN", pred |-> 0, cdm |-> clean_cdms[i].idx])
                 ELSE F[i - 1]
    IN  F[Len(clean_cdms)]

\* results_meta (lines 78-83): built, then left behind by the return of
\* line 85
results_meta(ps, cs) ==
    [diag |-> [preds_in |-> Len(ps), preds_clean |-> Len(sanitize_preds(ps)),
               cdms_in |-> Len(cs), cdms_clean |-> Len(sanitize_cdms(cs))]]

\* match(preds, cdms, tca_window_s, dist_window_km) (lines 17-85)
match(ps, cs, twin, dwin) ==
    LET clean_preds == sanitize_preds(ps)
        clean_cdms == sanitize_cdms(cs)
        by_pair == index_by_pair(clean_cdms)
        m == match_loop(clean_preds, by_pair, twin, dwin)
    IN  m.results \o fn_results(clean_preds, clean_cdms, m.matched_cdm_ids)

\* ------------------------------------------------------------ inputs of MatchSpec
Pred(a, b, t, d) ==
    [norad_id_a |-> a, norad_id_b |-> b, norad_a |-> NoneV, norad_b |-> NoneV,
     tca_utc |-> t, min_dist_km |-> d]

Cdm(m, a, b, t, d) ==
    [cdm_id |-> m, norad_primary |-> a, norad_secondary |-> b,
     tca_utc |-> t, miss_distance_km |-> d]

\* predictions of the pair (1,2): at two times, with and without a distance,
\* in the other stored order, under the alternative field names, and with a
\* non-integral id, a text id and no time
PredSet ==
    {Pred(IntV(1), IntV(2), t, d) : t \in {0, 1}, d \in {None, 0}}
    \cup {Pred(IntV(2), IntV(1), 1, 0),
          Pred(FloatV(1), IntV(2), 1, None),
          Pred(BadStr, IntV(2), 1, None),
          Pred(IntV(1), IntV(2), None, 0),
          [Pred(NoneV, NoneV, 0, None) EXCEPT !.norad_a = IntV(1), !.norad_b = IntV(2)]}

\* ground truth of the pair (1,2): at two times, with and without a message
\* id, with a distance, in the other stored order, with ids given as text and
\* with no time; and one record of the pair (2,2)
CdmSet ==
    {Cdm(m, IntV(1), IntV(2), t, None) : m \in {None, 7}, t \in {0, 2}}
    \cup {Cdm(7, IntV(1), IntV(2), 0, 2),
          Cdm(8, IntV(2), IntV(1), 1, 1),
          Cdm(9, IntV(2), IntV(2), 1, None),
          Cdm(8, NumStr(1), NumStr(2), 1, None),
          Cdm(9, IntV(1), NoneV, None, None)}

TcaWindows == {0, 1}

DistWindows == {1, 2}

SeqsUpTo(S, n) == UNION {[1..k -> S] : k \in 0..n}

\* ------------------------------------------------------------ validator_service.py
NoNote == ""

NoCredsNote == "No Space-Track credentials; running offline (no CDMs)."

FetchFailedNote == "Space-Track fetch failed; running offline. error="

\* the state of run_validation() before it is called
RunIdle ==
    /\ creds = FALSE
    /\ items = <<>>
    /\ idx = 0
    /\ note = NoNote
    /\ fetch_status = "pending"
    /\ run_file = <<>>
    /\ latest = <<>>
    /\ returned = <<>>
    /\ error = "none"

\* no concurrent run has started and nobody has read latest.json
ConcIdle ==
    /\ now = 0
    /\ wpc = <<>>
    /\ stamp = <<>>
    /\ w_matches = <<>>
    /\ w_note = <<>>
    /\ runs_dir = <<>>
    /\ latest_json = <<>>
    /\ seen = <<>>

\* the state of compute_metrics() when it is not called
MetricsIdle ==
    /\ cm_matches = <<>>
    /\ cm_metrics = <<>>

\* the state of min_distance_over_window() when it is not called
PairsIdle ==
    /\ positions = <<>>
    /\ radius_km = 0
    /\ pairs = <<>>

\* the state of apply_baseline() when it is not called
ScoreIdle ==
    /\ df_pairs = <<>>
    /\ risk_threshold_km = 0
    /\ scored = <<>>
    /\ pred_store = <<>>

\* no timestamp has entered run_validation()
TzIdle ==
    /\ host_tz = 0
    /\ tz_in = <<>>
    /\ bounds_utc = <<>>
    /\ pred_loaded = <<>>
    /\ cdm_norm = <<>>

\* the state of match() when it is not called
MatchIdle ==
    /\ preds = <<>>
    /\ cdms = <<>>
    /\ tca_window_s = 0
    /\ dist_window_km = 0
    /\ results = <<>>

\* ------------------------------------------------------------ MatchSpec
InitMatch ==
    /\ pc = "call"
    /\ preds \in SeqsUpTo(PredSet, MaxRecords)
    /\ cdms \in SeqsUpTo(CdmSet, MaxRecords - Len(preds))
    /\ tca_window_s \in TcaWindows
    /\ dist_window_km \in DistWindows
    /\ results = <<>>
    /\ RunIdle
    /\ ConcIdle
    /\ MetricsIdle
    /\ PairsIdle
    /\ ScoreIdle
    /\ TzIdle

\* one call of match()
Match ==
    /\ pc = "call"
    /\ results' = match(preds, cdms, tca_window_s, dist_window_km)
    /\ pc' = "returned"
    /\ UNCHANGED <<preds, cdms, tca_window_s, dist_window_km>>
    /\ UNCHANGED runVars
    /\ UNCHANGED engineVars

NextMatch == Match

MatchSpec == InitMatch /\ [][NextMatch]_vars

\* _to_int (lines 36-40): int(x), None when int() raises
to_int(x) ==
    CASE x.k = "int" -> x.v
      [] x.k = "float" -> x.v
      [] x.k = "numstr" -> x.v
      [] OTHER -> None

\* _to_float (lines 43-47) of a distance given as a number or as text, in
\* the integer distance unit of the model
to_float(x) ==
    CASE x.k = "int" -> x.v
      [] x.k = "numstr" -> x.v
      [] x.k \in {"badstr", "none"} -> None

\* _to_dt (lines 50-54): None for an empty value, raises on malformed text
to_dt(x) ==
    IF x = None THEN None
    ELSE IF x = BadIso THEN Raises
    ELSE x

\* an int-or-None value as the raw value match() receives
Boxed(n) == IF n = None THEN NoneV ELSE IntV(n)

\* load_predictions_by_window (lines 60-88) over the stored records, in file
\* order: raised tells that _to_dt raised on one of them
load_predictions_by_window(stored, start, end) ==
    LET F[i \in 0..Len(stored)] ==
            IF i = 0 THEN [raised |-> FALSE, preds |-> <<>>]
            ELSE LET prev == F[i - 1]
                     rec == stored[i]
                     t_dt == to_dt(rec.tca_utc)
                 IN  IF prev.raised THEN prev
                     ELSE IF rec.tca_utc = None THEN prev
                     ELSE IF t_dt = Raises THEN [prev EXCEPT !.raised = TRUE]
                     ELSE IF start <= t_dt /\ t_dt <= end
                     THEN [prev EXCEPT !.preds = Append(@,
                              [rec EXCEPT
                                  !.norad_id_a = IF rec.norad_id_a = NoneV /\ rec.norad_a # NoneV
                                                 THEN rec.norad_a ELSE @,
                                  !.norad_id_b = IF rec.norad_id_b = NoneV /\ rec.norad_b # NoneV
                                                 THEN rec.norad_b ELSE @,
                                  !.tca_utc = t_dt])]
                     ELSE prev
    IN  F[Len(stored)]

\* the normalized item (lines 131-144); tca_utc is Raises when _to_dt raises
normalize_item(it) ==
    [cdm_id |-> it.MESSAGE_ID,
     norad_primary |->
         Boxed(to_int(PyOr(it.OBJECT1_NORAD_CAT_ID, it.OBJECT1_OBJECT_DESIGNATOR))),
     norad_secondary |->
         Boxed(to_int(PyOr(it.OBJECT2_NORAD_CAT_ID, it.OBJECT2_OBJECT_DESIGNATOR))),
     tca_utc |-> to_dt(it.TCA),
     miss_distance_km |-> to_float(it.MISS_DISTANCE)]

\* except Exception as e (lines 146-147): the note, and where the run goes on
fetch_except_reraise(e) == [note |-> NoNote, pc |-> "raised"]

fetch_except(e) == [note |-> FetchFailedNote, pc |-> "match"]

\* no credentials (lines 148-149)
no_creds_note == NoCredsNote

\* _counts (metrics_calculator.py lines 5-9) as the counts of line 27
counts(matches) ==
    [tp |-> Cardinality({k \in 1..Len(matches) : matches[k].type = "TP"}),
     fp |-> Cardinality({k \in 1..Len(matches) : matches[k].type = "FP"}),
     fn |-> Cardinality({k \in 1..Len(matches) : matches[k].type = "FN"})]

\* summary_payload (lines 169-174): "note" is a key only when note is truthy
summary_payload(window, metrics, n) ==
    [keys |-> {"window", "metrics"} \cup (IF n # NoNote THEN {"note"} ELSE {}),
     window |-> window,
     metrics |-> metrics,
     note |-> n]

\* ------------------------------------------------------------ inputs of RunSpec
\* stored prediction records and fetched items of one run
MaxStored == 2

MaxItems == 2

\* the requested window [start, end]
Window == [start |-> 0, end |-> 2]

\* stored predictions: inside the window, after it, under the alternative
\* field names, with no time and with a malformed time
StoredPredSet ==
    {Pred(IntV(1), IntV(2), 0, None),
     Pred(IntV(2), IntV(1), 1, 0),
     Pred(IntV(1), IntV(2), 3, 0),
     [Pred(NoneV, NoneV, 1, None) EXCEPT !.norad_a = IntV(1), !.norad_b = IntV(2)],
     Pred(IntV(1), IntV(2), None, 0),
     Pred(IntV(1), IntV(2), BadIso, 0)}

Item(m, a, b, t, d) ==
    [MESSAGE_ID |-> m,
     OBJECT1_NORAD_CAT_ID |-> a, OBJECT1_OBJECT_DESIGNATOR |-> NoneV,
     OBJECT2_NORAD_CAT_ID |-> b, OBJECT2_OBJECT_DESIGNATOR |-> NoneV,
     TCA |-> t, MISS_DISTANCE |-> d]

\* fetched items (Space-Track gives every value as text): well-formed ones,
\* one with no TCA and one with a malformed TCA
ItemSet ==
    {Item(7, NumStr(1), NumStr(2), 0, NumStr(1)),
     Item(None, NumStr(2), NumStr(1), 2, NoneV),
     Item(8, NumStr(1), NumStr(2), None, NoneV),
     Item(9, NumStr(1), NumStr(2), BadIso, NoneV)}

\* ------------------------------------------------------------ RunSpec
InitRun ==
    /\ pc = "start"
    /\ preds = <<>>
    /\ cdms = <<>>
    /\ tca_window_s \in TcaWindows
    /\ dist_window_km = 1
    /\ results = <<>>
    /\ creds \in BOOLEAN
    /\ items = <<>>
    /\ idx = 0
    /\ note = NoNote
    /\ fetch_status = "pending"
    /\ run_file = <<>>
    /\ latest = <<>>
    /\ returned = <<>>
    /\ error = "none"
    /\ ConcIdle
    /\ MetricsIdle
    /\ PairsIdle
    /\ ScoreIdle
    /\ TzIdle

\* 1) Load predictions (line 118)
LoadPredictions ==
    /\ pc = "start"
    /\ \E stored \in SeqsUpTo(StoredPredSet, MaxStored) :
          LET l == load_predictions_by_window(stored, Window.start, Window.end)
          IN  IF l.raised
              THEN /\ pc' = "raised"
                   /\ error' = "load"
                   /\ UNCHANGED preds
              ELSE /\ pc' = "fetch"
                   /\ preds' = l.preds
                   /\ UNCHANGED error
    /\ UNCHANGED <<cdms, tca_window_s, dist_window_km, results>>
    /\ UNCHANGED <<creds, items, idx, note, fetch_status, run_file, latest, returned>>
    /\ UNCHANGED engineVars

\* 2) no credentials: offline (lines 124, 148-149)
NoCredentials ==
    /\ pc = "fetch"
    /\ ~creds
    /\ note' = no_creds_note
    /\ fetch_status' = "no_creds"
    /\ pc' = "match"
    /\ UNCHANGED matchVars
    /\ UNCHANGED <<creds, items, idx, run_file, latest, returned, error>>
    /\ UNCHANGED engineVars

\* 2) the login or the query raises (lines 126-127, 146-147)
FetchRaises ==
    /\ pc = "fetch"
    /\ creds
    /\ \E e \in {"login", "query"} :
          LET h == fetch_except(e)
          IN  /\ note' = h.note
              /\ pc' = h.pc
              /\ error' = IF h.pc = "raised" THEN "fetch" ELSE error
              /\ fetch_status' = "fetch_failed"
    /\ UNCHANGED matchVars
    /\ UNCHANGED <<creds, items, idx, run_file, latest, returned>>
    /\ UNCHANGED engineVars

\* 2) the query returns items (line 127)
FetchReturns ==
    /\ pc = "fetch"
    /\ creds
    /\ \E its \in SeqsUpTo(ItemSet, MaxItems) :
          /\ items' = its
          /\ idx' = 1
          /\ pc' = IF its = <<>> THEN "match" ELSE "normalize"
          /\ fetch_status' = IF its = <<>> THEN "ok" ELSE "normalizing"
    /\ UNCHANGED matchVars
    /\ UNCHANGED <<creds, note, run_file, latest, returned, error>>
    /\ UNCHANGED engineVars

\* 2) one pass of the normalization loop (lines 129-147)
NormalizeItem ==
    /\ pc = "normalize"
    /\ idx <= Len(items)
    /\ LET c == normalize_item(items[idx])
           h == fetch_except("normalize")
       IN  IF c.tca_utc = Raises
           THEN /\ note' = h.note
                /\ pc' = h.pc
                /\ error' = IF h.pc = "raised" THEN "fetch" ELSE error
                /\ fetch_status' = "normalize_failed"
                /\ UNCHANGED <<cdms, idx>>
           ELSE /\ cdms' = Append(cdms, c)
                /\ idx' = idx + 1
                /\ pc' = IF idx = Len(items) THEN "match" ELSE "normalize"
                /\ fetch_status' = IF idx = Len(items) THEN "ok" ELSE "normalizing"
                /\ UNCHANGED <<note, error>>
    /\ UNCHANGED <<preds, tca_window_s, dist_window_km, results>>
    /\ UNCHANGED <<creds, items, run_file, latest, returned>>
    /\ UNCHANGED engineVars

\* 3) Match + metrics (lines 155-156)
MatchAndMetrics ==
    /\ pc = "match"
    /\ results' = match(preds, cdms, tca_window_s, dist_window_km)
    /\ pc' = "persist_run"
    /\ UNCHANGED <<preds, cdms, tca_window_s, dist_window_km>>
    /\ UNCHANGED runVars
    /\ UNCHANGED engineVars

\* 4) the per-run match log (lines 159-167): written, or the write raises
WriteRunFile ==
    /\ pc = "persist_run"
    /\ \/ /\ run_file' = results
          /\ pc' = "persist_summary"
          /\ UNCHANGED error
       \/ /\ pc' = "raised"
          /\ error' = "run_file"
          /\ UNCHANGED run_file
    /\ UNCHANGED matchVars
    /\ UNCHANGED <<creds, items, idx, note, fetch_status, latest, returned>>
    /\ UNCHANGED engineVars

\* 4-5) latest.json and the return (lines 169-180): written and returned, or
\* the write raises
WriteSummary ==
    /\ pc = "persist_summary"
    /\ \/ /\ latest' = <<summary_payload(Window, [counts |-> counts(results)], note)>>
          /\ returned' = <<summary_payload(Window, [counts |-> counts(results)], note)>>
          /\ pc' = "done"
          /\ UNCHANGED error
       \/ /\ pc' = "raised"
          /\ error' = "summary"
          /\ UNCHANGED <<latest, returned>>
    /\ UNCHANGED matchVars
    /\ UNCHANGED <<creds, items, idx, note, fetch_status, run_file>>
    /\ UNCHANGED engineVars

NextRun ==
    \/ LoadPredictions
    \/ NoCredentials
    \/ FetchRaises
    \/ FetchReturns
    \/ NormalizeItem
    \/ MatchAndMetrics
    \/ WriteRunFile
    \/ WriteSummary

RunSpec == InitRun /\ [][NextRun]_vars

\* ------------------------------------------------------------ ConcSpec
\* Runs of run_validation() in separate processes, from the point where
\* match and metrics are done (lines 158-177), and a client of
\* GET /v1/validation/metrics.  A file is the sequence of the pieces written
\* to it, each piece tagged with the run that wrote it.
MaxRuns == 2

MaxClock == 1

MaxMatches == 1

Runs == 1..MaxRuns

\* the lines a run appends to its run file, one per match result (lines 164-167)
run_lines(r, n) == [k \in 1..n |-> [run |-> r, line |-> k]]

\* what json.dump writes for a summary_payload (lines 169-177): window and
\* metrics, and a further piece for the note when there is one
payload_bytes(r, has_note) ==
    IF has_note
    THEN <<[run |-> r, part |-> "window+metrics"], [run |-> r, part |-> "note"]>>
    ELSE <<[run |-> r, part |-> "window+metrics"]>>

\* open(path, "w") (line 176): the file is cut to length zero
open_w(old) == <<>>

\* the write of data through a handle opened with "w", whose offset is 0,
\* into a file that holds old: bytes beyond the data stay
write_at_0(old, data) ==
    [i \in 1..(IF Len(old) > Len(data) THEN Len(old) ELSE Len(data)) |->
        IF i <= Len(data) THEN data[i] ELSE old[i]]

notConcVars == <<pc, matchVars, runVars, metricsVars, pairsVars, scoreVars, tzVars>>

\* latest.json holds the complete summary of an earlier run, numbered 0
InitConc ==
    /\ pc = "idle"
    /\ MatchIdle
    /\ RunIdle
    /\ MetricsIdle
    /\ PairsIdle
    /\ ScoreIdle
    /\ now = 0
    /\ wpc = [r \in Runs |-> "name"]
    /\ stamp = [r \in Runs |-> None]
    /\ w_matches \in [Runs -> 0..MaxMatches]
    /\ w_note \in [Runs -> BOOLEAN]
    /\ runs_dir = [t \in 0..MaxClock |-> <<>>]
    /\ latest_json = payload_bytes(0, FALSE)
    /\ seen = <<>>
    /\ TzIdle

\* the system clock reaches the next second
Tick ==
    /\ now < MaxClock
    /\ now' = now + 1
    /\ UNCHANGED <<wpc, stamp, w_matches, w_note, runs_dir, latest_json, seen>>
    /\ UNCHANGED notConcVars

\* run_file = RUNS_DIR / f"{utcnow():%Y%m%dT%H%M%SZ}.jsonl" (line 162)
NameRunFile(r) ==
    /\ wpc[r] = "name"
    /\ stamp' = [stamp EXCEPT ![r] = now]
    /\ wpc' = [wpc EXCEPT ![r] = "append"]
    /\ UNCHANGED <<now, w_matches, w_note, runs_dir, latest_json, seen>>
    /\ UNCHANGED notConcVars

\* with run_file.open("a"): one line per match (lines 163-167)
AppendRunFile(r) ==
    /\ wpc[r] = "append"
    /\ runs_dir' = [runs_dir EXCEPT ![stamp[r]] = @ \o run_lines(r, w_matches[r])]
    /\ wpc' = [wpc EXCEPT ![r] = "open"]
    /\ UNCHANGED <<now, stamp, w_matches, w_note, latest_json, seen>>
    /\ UNCHANGED notConcVars

\* (SUMMARY_DIR / "latest.json").open("w") (line 176)
OpenLatest(r) ==
    /\ wpc[r] = "open"
    /\ latest_json' = open_w(latest_json)
    /\ wpc' = [wpc EXCEPT ![r] = "dump"]
    /\ UNCHANGED <<now, stamp, w_matches, w_note, runs_dir, seen>>
    /\ UNCHANGED notConcVars

\* json.dump(summary_payload, f) and the flush on leaving the with block
\* (line 177)
DumpLatest(r) ==
    /\ wpc[r] = "dump"
    /\ latest_json' = write_at_0(latest_json, payload_bytes(r, w_note[r]))
    /\ wpc' = [wpc EXCEPT ![r] = "done"]
    /\ UNCHANGED <<now, stamp, w_matches, w_note, runs_dir, seen>>
    /\ UNCHANGED notConcVars

\* GET /v1/validation/metrics: open and json.load (validation.py lines 21-25)
GetMetrics ==
    /\ seen' = <<latest_json>>
    /\ seen' # seen
    /\ UNCHANGED <<now, wpc, stamp, w_matches, w_note, runs_dir, latest_json>>
    /\ UNCHANGED notConcVars

NextConc ==
    \/ Tick
    \/ \E r \in Runs : NameRunFile(r)
    \/ \E r \in Runs : AppendRunFile(r)
    \/ \E r \in Runs : OpenLatest(r)
    \/ \E r \in Runs : DumpLatest(r)
    \/ GetMetrics

ConcSpec == InitConc /\ [][NextConc]_vars

\* ------------------------------------------------------------ metrics_calculator.py
\* A float is the exact fraction num/den (den > 0).  Times are in seconds,
\* distances in hundredths of a km, velocities in km/s, risk scores and
\* thresholds in hundredths.
Ratio(n, d) == [num |-> n, den |-> d]

Zero == Ratio(0, 1)

RatEq(x, y) == x.num * y.den = y.num * x.den

RatLe(x, y) == x.num * y.den <= y.num * x.den

\* max(1, n)
max1(n) == IF n < 1 THEN 1 ELSE n

\* (x or 0) of lines 22-23: a value that is None or absent counts as 0
or0(x) == IF x = None THEN 0 ELSE x

RECURSIVE sum(_)
sum(s) == IF s = <<>> THEN 0 ELSE Head(s) + sum(Tail(s))

is_tp(m) == m.type = "TP"

is_fp(m) == m.type = "FP"

is_fn_match(m) == m.type = "FN"

\* the arithmetic mean of precision and recall
f1_arithmetic(P, R) == Ratio(P.num * R.den + R.num * P.den, 2 * P.den * R.den)

\* P (line 13)
precision_of(tp, fp) == Ratio(tp, max1(tp + fp))

\* R (line 14)
recall_of(tp, fn) == Ratio(tp, max1(tp + fn))

\* F1 (line 15)
f1_of(P, R) ==
    IF P.num * R.den + R.num * P.den = 0
    THEN Zero
    ELSE Ratio(2 * P.num * R.num, P.num * R.den + R.num * P.den)

\* t_err, d_err, v_err (lines 21-23)
t_err(m) == m.pred.tca_utc - m.cdm.tca_utc

d_err(m) == or0(m.pred.min_dist_km) - or0(m.cdm.miss_distance_km)

v_err(m) == or0(m.pred.closing_velocity_kms) - or0(m.cdm.rel_speed_kms)

\* (sum(xs)/len(xs)) if xs else 0 (lines 30-32)
mean_or_0(xs) == IF xs # <<>> THEN Ratio(sum(xs), Len(xs)) ELSE Zero

\* thresholds (line 37): 0.00, 0.05, ..., 1.00
thresholds == [i \in 1..21 |-> 5 * (i - 1)]

\* m["pred"].get("risk_score", 0) (lines 40-41)
risk_score_or_0(m) == IF m.pred.risk_score = None THEN 0 ELSE m.pred.risk_score

\* number of the matches of ms whose prediction scores at least t
count_at_least(ms, t) ==
    Cardinality({k \in 1..Len(ms) : risk_score_or_0(ms[k]) >= t})

\* recall at a threshold over the results that pass the threshold only
recall_t_passing(t_tp, tp, fn) == Ratio(t_tp, max1(t_tp + fn))

\* P_t (line 43)
precision_t(t_tp, t_fp) == Ratio(t_tp, max1(t_tp + t_fp))

\* R_t (line 44)
recall_t(t_tp, tp, fn) == Ratio(t_tp, max1(tp + fn))

\* the curve of lines 36-46
pr_curve(tp, fp, fn) ==
    [i \in 1..Len(thresholds) |->
        LET t == thresholds[i]
            t_tp == count_at_least(tp, t)
            t_fp == count_at_least(fp, t)
        IN [thr |-> t,
            precision |-> precision_t(t_tp, t_fp),
            recall |-> recall_t(t_tp, Len(tp), Len(fn))]]

\* compute_metrics (lines 11-47); "pr_curve" is a key only when a TP or FP
\* prediction has the key "risk_score" (lines 35-36)
compute_metrics(ms) ==
    LET tp == SelectSeq(ms, is_tp)
        fp == SelectSeq(ms, is_fp)
        fn == SelectSeq(ms, is_fn_match)
        P == precision_of(Len(tp), Len(fp))
        R == recall_of(Len(tp), Len(fn))
        terr == [k \in 1..Len(tp) |-> Abs(t_err(tp[k]))]
        derr == [k \in 1..Len(tp) |-> Abs(d_err(tp[k]))]
        verr == [k \in 1..Len(tp) |-> Abs(v_err(tp[k]))]
        scored_preds == SelectSeq(tp \o fp, LAMBDA m : m.pred.risk_score # None)
    IN [keys |-> {"counts", "precision", "recall", "f1", "mae_seconds_tca",
                  "mae_km_distance", "mae_kms_velocity"}
                 \cup (IF scored_preds # <<>> THEN {"pr_curve"} ELSE {}),
        counts |-> [tp |-> Len(tp), fp |-> Len(fp), fn |-> Len(fn)],
        precision |-> P,
        recall |-> R,
        f1 |-> f1_of(P, R),
        mae_seconds_tca |-> mean_or_0(terr),
        mae_km_distance |-> mean_or_0(derr),
        mae_kms_velocity |-> mean_or_0(verr),
        pr_curve |-> IF scored_preds # <<>> THEN pr_curve(tp, fp, fn) ELSE <<>>]

\* ------------------------------------------------------------ MetricsSpec
MaxMatchList == 3

\* the fields compute_metrics reads of a prediction and of a ground-truth record
MPred(t, d, v, s) ==
    [tca_utc |-> t, min_dist_km |-> d, closing_velocity_kms |-> v, risk_score |-> s]

MCdm(t, d, v) == [tca_utc |-> t, miss_distance_km |-> d, rel_speed_kms |-> v]

NoRecord == [none |-> TRUE]

\* match results as match() emits them: a TP has both records, an FP has no
\* ground-truth record, an FN has no prediction
MatchRecSet ==
    {[type |-> "TP", pred |-> MPred(0, 30, None, 100), cdm |-> MCdm(90, 35, None)],
     [type |-> "TP", pred |-> MPred(0, 30, None, 20), cdm |-> MCdm(0, None, 7)],
     [type |-> "TP", pred |-> MPred(10, None, 7, None), cdm |-> MCdm(0, None, 9)],
     [type |-> "FP", pred |-> MPred(0, 30, None, 50), cdm |-> NoRecord],
     [type |-> "FP", pred |-> MPred(0, None, None, None), cdm |-> NoRecord],
     [type |-> "FN", pred |-> NoRecord, cdm |-> MCdm(0, None, None)]}

notMetricsVars == <<matchVars, runVars, concVars, pairsVars, scoreVars, tzVars>>

InitMetrics ==
    /\ pc = "call"
    /\ cm_matches \in SeqsUpTo(MatchRecSet, MaxMatchList)
    /\ cm_metrics = <<>>
    /\ MatchIdle
    /\ RunIdle
    /\ ConcIdle
    /\ PairsIdle
    /\ ScoreIdle
    /\ TzIdle

\* one call of compute_metrics()
ComputeMetrics ==
    /\ pc = "call"
    /\ cm_metrics' = <<compute_metrics(cm_matches)>>
    /\ pc' = "returned"
    /\ UNCHANGED cm_matches
    /\ UNCHANGED notMetricsVars

NextMetrics == ComputeMetrics

MetricsSpec == InitMetrics /\ [][NextMetrics]_vars

\* ------------------------------------------------------------ fast_pairs.py
\* A position is a point of a line, in km, so that the euclidean distance of
\* two objects is the absolute difference; None is a propagation that failed
\* (_eci_pos_km returned None).  A sampled time is the number of its step.
\* A frame is the set of its rows where the code does not depend on the order
\* of the rows.

\* a table that is empty as soon as one object fails to propagate
positions_table_all_or_none(ids, pos_t) ==
    IF \E i \in 1..Len(ids) : pos_t[i] = None
    THEN <<>>
    ELSE [i \in 1..Len(ids) |-> [norad_id |-> ids[i], x_km |-> pos_t[i]]]

\* positions_table for one time (lines 29-42): a row per object that
\* propagated, in the order of df_tle
positions_table(ids, pos_t) ==
    SelectSeq([i \in 1..Len(ids) |-> [norad_id |-> ids[i], x_km |-> pos_t[i]]],
              LAMBDA row : row.x_km # None)

\* the test of line 58 that skips the self-pair only
skip_self_only(i, j) == j = i

\* the test of line 58: the self-pair and the pair already seen as (j, i)
skip_pair(i, j) == j <= i

\* close_pairs_at_time (lines 44-62); query_radius gives the neighbours at a
\* distance <= r
close_pairs_at_time(df_pos, t, r) ==
    LET n == Len(df_pos)
        d(i, j) == Abs(df_pos[i].x_km - df_pos[j].x_km)
    IN {[time |-> t,
         norad_id_a |-> df_pos[ij[1]].norad_id,
         norad_id_b |-> df_pos[ij[2]].norad_id,
         dist_km |-> d(ij[1], ij[2])] :
            ij \in {xy \in (1..n) \X (1..n) :
                       d(xy[1], xy[2]) <= r /\ ~skip_pair(xy[1], xy[2])}}

\* the keys of groupby(["norad_id_a", "norad_id_b"])
group_keys(rows) == {<<row.norad_id_a, row.norad_id_b>> : row \in rows}

group(rows, k) == {row \in rows : <<row.norad_id_a, row.norad_id_b>> = k}

\* the smallest dist_km of a non-empty set of rows
min_dist(rows) ==
    CHOOSE d \in {row.dist_km : row \in rows} : \A row \in rows : d <= row.dist_km

\* g of lines 86-87: per key the smallest distance of the step, stamped t
step_min_rows(prs, t) ==
    {[norad_id_a |-> k[1], norad_id_b |-> k[2],
      dist_km |-> min_dist(group(prs, k)), tca_utc |-> t] : k \in group_keys(prs)}

\* mins of lines 79-88, concatenated (line 95); a step with no position or no
\* pair adds nothing
concat_mins(ids, pos, r) ==
    UNION {step_min_rows(close_pairs_at_time(positions_table(ids, pos[t]), t, r), t) :
              t \in 1..Len(pos)}

\* the rows of a group that .first() would give without the sort: those of
\* the earliest step
first_unsorted(rows) == {row \in rows : \A q \in rows : row.tca_utc <= q.tca_utc}

\* the rows of a group that can come first after sort_values("dist_km")
\* (lines 96-98): the sort is not stable, so any row of smallest distance
first_after_sort(rows) == {row \in rows : \A q \in rows : row.dist_km <= q.dist_km}

\* the frames groupby(...).first().rename(...) can give for the keys ks
\* (lines 96-99)
RECURSIVE first_per_group(_, _)
first_per_group(df, ks) ==
    IF ks = {} THEN {{}}
    ELSE LET k == CHOOSE x \in ks : TRUE
         IN {rest \cup {[norad_id_a |-> b.norad_id_a, norad_id_b |-> b.norad_id_b,
                         min_dist_km |-> b.dist_km, tca_utc |-> b.tca_utc]} :
                rest \in first_per_group(df, ks \ {k}),
                b \in first_after_sort(group(df, k))}

\* min_distance_over_window (lines 64-101): the frames it can return
min_distance_over_window(ids, pos, r) ==
    LET df == concat_mins(ids, pos, r)
    IN IF df = {} THEN {{}} ELSE first_per_group(df, group_keys(df))

\* ------------------------------------------------------------ build_graph.py
\* the update of the running minimum at every step
pairwise_update_always(min_d, d) == TRUE

\* (min_d is None) or (d < min_d) (line 43)
pairwise_update(min_d, d) == min_d = None \/ d < min_d

\* the loop over the times for the objects at rows i and j (lines 37-44)
pairwise_min(pos, i, j) ==
    LET F[t \in 0..Len(pos)] ==
            IF t = 0 THEN [min_d |-> None, min_t |-> None]
            ELSE LET ra == pos[t][i]
                     rb == pos[t][j]
                 IN  IF ra = None \/ rb = None THEN F[t - 1]
                     ELSE IF pairwise_update(F[t - 1].min_d, Abs(ra - rb))
                     THEN [min_d |-> Abs(ra - rb), min_t |-> t]
                     ELSE F[t - 1]
    IN  F[Len(pos)]

\* pairwise_min_distance_over_window (lines 22-47): a row for every i < j
\* that were both propagated at some time; there is no radius
pairwise_min_distance_over_window(ids, pos) ==
    {[norad_id_a |-> ids[ij[1]], norad_id_b |-> ids[ij[2]],
      min_dist_km |-> pairwise_min(pos, ij[1], ij[2]).min_d,
      tca_utc |-> pairwise_min(pos, ij[1], ij[2]).min_t] :
        ij \in {xy \in (1..Len(ids)) \X (1..Len(ids)) :
                   xy[1] < xy[2] /\ pairwise_min(pos, xy[1], xy[2]).min_d # None}}

\* ------------------------------------------------------------ PairsSpec
MaxSteps == 2

\* norad_id of the rows of df_tle, in row order
Catalog == <<20, 10, 30>>

PosSet == {None, 0, 1, 3}

\* the positions of the objects at one step; the first object is the origin
\* of the line whenever it propagates
PosRows == {f \in [1..Len(Catalog) -> PosSet] : f[1] \in {None, 0}}

Radii == {1, 2}

notPairsVars == <<matchVars, runVars, concVars, metricsVars, scoreVars, tzVars>>

InitPairs ==
    /\ pc = "call"
    /\ positions \in SeqsUpTo(PosRows, MaxSteps)
    /\ radius_km \in Radii
    /\ pairs = <<>>
    /\ MatchIdle
    /\ RunIdle
    /\ ConcIdle
    /\ MetricsIdle
    /\ ScoreIdle
    /\ TzIdle

\* one call of min_distance_over_window()
MinDistanceOverWindow ==
    /\ pc = "call"
    /\ \E df \in min_distance_over_window(Catalog, positions, radius_km) :
          pairs' = <<df>>
    /\ pc' = "returned"
    /\ UNCHANGED <<positions, radius_km>>
    /\ UNCHANGED notPairsVars

NextPairs == MinDistanceOverWindow

PairsSpec == InitPairs /\ [][NextPairs]_vars

\* ------------------------------------------------------------ score_baseline.py
\* Distances and the scale are whole km.  The float64 value of np.exp(-n/m)
\* is kept as what it is known to be:
\*   "one"        1.0, for n = 0
\*   "pos"        a normal float strictly between 0 and 1, named by the
\*                fraction n/m; it is smaller for a larger n/m (the fractions
\*                of the model differ by at least 1/10)
\*   "subnormal"  below the smallest normal float, 0.0 or not
\*   "zero"       0.0: the result underflows
\* exp(-708) is the last normal result at a whole argument and exp(-746) the
\* first that is 0.0 for every argument from there on.
ExpNormalUpTo == 708

ExpZeroFrom == 746

Score(kind, n, m) == [kind |-> kind, num |-> n, den |-> m]

ScoreOne == Score("one", 0, 1)

ScoreZero == Score("zero", 0, 1)

\* the exponential over the reals: positive for every argument
exp_real(n, m) == IF n = 0 THEN ScoreOne ELSE Score("pos", n, m)

\* np.exp(-n / m) in float64 (line 25), for n >= 0 and m > 0
exp_neg(n, m) ==
    IF n = 0 THEN ScoreOne
    ELSE IF n <= ExpNormalUpTo * m THEN Score("pos", n, m)
    ELSE IF n < ExpZeroFrom * m THEN Score("subnormal", n, m)
    ELSE ScoreZero

\* the class of line 26 with <= in the place of <
risk_class_le(d, scale) == IF 5 * d <= scale THEN 1 ELSE 0

\* (min_dist_km < 0.2 * scale).astype(int) (line 26)
risk_class_of(d, scale) == IF 5 * d < scale THEN 1 ELSE 0

\* the order of the scores as floats
ScoreRank(x) ==
    CASE x.kind = "zero" -> 0
      [] x.kind = "subnormal" -> 1
      [] x.kind = "pos" -> 2
      [] x.kind = "one" -> 3

ScoreLt(x, y) ==
    \/ ScoreRank(x) < ScoreRank(y)
    \/ /\ x.kind = y.kind
       /\ x.kind \in {"pos", "subnormal"}
       /\ x.num * y.den > y.num * x.den

\* the row of the returned frame for one row of df_pairs (lines 23-26)
score_row(d, scale) ==
    [min_dist_km |-> d,
     risk_score |-> exp_neg(d, scale),
     risk_class |-> risk_class_of(d, scale)]

\* sort_values("risk_score", ascending=False) (line 27): every order of the
\* rows in which no row comes before a row of higher score
sort_by_score_desc(rows) ==
    {[i \in 1..Len(rows) |-> rows[q[i]]] :
        q \in {f \in Permutations(1..Len(rows)) :
                  \A i \in 1..Len(rows) : \A j \in 1..Len(rows) :
                      i < j => ~ScoreLt(rows[f[i]].risk_score, rows[f[j]].risk_score)}}

\* apply_baseline (lines 12-27): the frames it can return
apply_baseline(df, scale) ==
    IF df = <<>> THEN {<<>>}
    ELSE sort_by_score_desc([i \in 1..Len(df) |-> score_row(df[i], scale)])

\* ------------------------------------------------------------ ScoreSpec
MaxPairs == 2

\* min_dist_km of a row: 0, around a fifth of the scale, the scale, and far
\* enough for 746 scales
DistSet == {0, 1, 2, 5, 10, 3730, 7460}

\* risk_threshold_km
ScaleSet == {5, 10}

notScoreVars == <<matchVars, runVars, concVars, metricsVars, pairsVars, tzVars>>

InitScore ==
    /\ pc = "call"
    /\ df_pairs \in SeqsUpTo(DistSet, MaxPairs)
    /\ risk_threshold_km \in ScaleSet
    /\ scored = <<>>
    /\ pred_store = <<>>
    /\ MatchIdle
    /\ RunIdle
    /\ ConcIdle
    /\ MetricsIdle
    /\ PairsIdle
    /\ TzIdle

\* one call of apply_baseline(): the function returns at line 27, so the
\* writer of logs/predictions below it (lines 29-51) never runs
ApplyBaseline ==
    /\ pc = "call"
    /\ \E df \in apply_baseline(df_pairs, risk_threshold_km) : scored' = df
    /\ pc' = "returned"
    /\ UNCHANGED <<df_pairs, risk_threshold_km, pred_store>>
    /\ UNCHANGED notScoreVars

NextScore == ApplyBaseline

ScoreSpec == InitScore /\ [][NextScore]_vars

\* ------------------------------------------------------------ TzSpec
\* The timestamps of one run of run_validation(): the bounds, the tca_utc of
\* one stored prediction and the TCA of one fetched item.  A timestamp is a
\* wall-clock hour, with a UTC offset when it carries time zone information;
\* an instant is an hour of UTC.
Naive(w) == [aware |-> FALSE, wall |-> w, off |-> 0]

Aware(w, o) == [aware |-> TRUE, wall |-> w, off |-> o]

\* x.replace(tzinfo=timezone.utc) (lines 108, 113): the wall clock is UTC
replace_utc(x) == x.wall

\* x.astimezone(timezone.utc): a naive x is taken as the host's local time
astimezone_utc(x, host) == IF x.aware THEN x.wall - x.off ELSE x.wall - host

\* start and end made timezone-aware UTC (lines 107-116)
bound_utc(x, host) == IF ~x.aware THEN replace_utc(x) ELSE astimezone_utc(x, host)

\* _to_dt of a well-formed text (line 54)
to_dt_utc(x, host) == astimezone_utc(x, host)

\* UTC offsets of the host's local time zone
HostZones == {-1, 0, 1}

BoundSet == {Naive(3), Naive(5), Aware(4, 1)}

StampSet == {Naive(2), Naive(3), Naive(5), Naive(6), Aware(4, 1), Aware(6, 0)}

notTzVars == <<matchVars, runVars, concVars, metricsVars, pairsVars, scoreVars>>

InitTz ==
    /\ pc = "start"
    /\ host_tz \in HostZones
    /\ tz_in \in {in \in [start : BoundSet, end : BoundSet, pred : StampSet, cdm : StampSet] :
                     in.start.wall - in.start.off < in.end.wall - in.end.off}
    /\ bounds_utc = <<>>
    /\ pred_loaded = <<>>
    /\ cdm_norm = <<>>
    /\ MatchIdle
    /\ RunIdle
    /\ ConcIdle
    /\ MetricsIdle
    /\ PairsIdle
    /\ ScoreIdle

\* Ensure inputs are timezone-aware UTC (lines 107-116)
NormalizeBounds ==
    /\ pc = "start"
    /\ bounds_utc' = <<bound_utc(tz_in.start, host_tz), bound_utc(tz_in.end, host_tz)>>
    /\ pc' = "load"
    /\ UNCHANGED <<host_tz, tz_in, pred_loaded, cdm_norm>>
    /\ UNCHANGED notTzVars

\* load_predictions_by_window for the stored prediction (lines 72-88)
LoadPrediction ==
    /\ pc = "load"
    /\ LET t_dt == to_dt_utc(tz_in.pred, host_tz)
       IN  pred_loaded' = IF bounds_utc[1] <= t_dt /\ t_dt <= bounds_utc[2]
                          THEN <<t_dt>>
                          ELSE <<>>
    /\ pc' = "fetch"
    /\ UNCHANGED <<host_tz, tz_in, bounds_utc, cdm_norm>>
    /\ UNCHANGED notTzVars

\* "tca_utc": _to_dt(it.get("TCA")) (line 139)
NormalizeTca ==
    /\ pc = "fetch"
    /\ cdm_norm' = <<to_dt_utc(tz_in.cdm, host_tz)>>
    /\ pc' = "match"
    /\ UNCHANGED <<host_tz, tz_in, bounds_utc, pred_loaded>>
    /\ UNCHANGED notTzVars

NextTz ==
    \/ NormalizeBounds
    \/ LoadPrediction
    \/ NormalizeTca

TzSpec == InitTz /\ [][NextTz]_vars

\* ------------------------------------------------------------ vocabulary of the claims
Returned == pc = "returned"

ResultIdx == 1..Len(results)

\* the raw catalog ids a record stores
PredRawA(p) == PyOr(p.norad_id_a, p.norad_a)

PredRawB(p) == PyOr(p.norad_id_b, p.norad_b)

\* int() accepts the value
Convertible(x) == x.k \in {"int", "float", "numstr"}

IntOf(x) == x.v

\* the record survives sanitization
PredSurvives(p) ==
    Convertible(PredRawA(p)) /\ Convertible(PredRawB(p)) /\ p.tca_utc # None

CdmSurvives(c) ==
    Convertible(c.norad_primary) /\ Convertible(c.norad_secondary) /\ c.tca_utc # None

\* the unordered pair of catalog ids of a surviving record
PredPair(p) == {IntOf(PredRawA(p)), IntOf(PredRawB(p))}

CdmPair(c) == {IntOf(c.norad_primary), IntOf(c.norad_secondary)}

SurvivingPreds == {i \in 1..Len(preds) : PredSurvives(preds[i])}

SurvivingCdms == {j \in 1..Len(cdms) : CdmSurvives(cdms[j])}

TrackedPairs == {PredPair(preds[i]) : i \in SurvivingPreds}

TPs == {k \in ResultIdx : results[k].type = "TP"}

FPs == {k \in ResultIdx : results[k].type = "FP"}

FNs == {k \in ResultIdx : results[k].type = "FN"}

\* C1: no ground-truth record is linked by more than one TP result
C1_NoCdmInTwoTPs ==
    Returned =>
        \A k1, k2 \in TPs : results[k1].cdm = results[k2].cdm => k1 = k2

\* C2: exactly one TP or FP result for each prediction that survives
\* sanitization, none for a dropped one; so tp + fp is the number of survivors
C2_OneResultPerSanitizedPred ==
    Returned =>
        /\ \A i \in 1..Len(preds) :
              Cardinality({k \in TPs \cup FPs : results[k].pred = i})
                  = IF i \in SurvivingPreds THEN 1 ELSE 0
        /\ \A k \in TPs \cup FPs : results[k].pred \in 1..Len(preds)
        /\ \A k \in FNs : results[k].pred = 0
        /\ Cardinality(TPs) + Cardinality(FPs) = Cardinality(SurvivingPreds)

C2_Witness ==
    /\ Returned
    /\ \E i \in 1..Len(preds) : i \notin SurvivingPreds
    /\ TPs # {}

\* C3: every TP links a prediction and a ground-truth record of the same
\* unordered pair, at most tca_window_s apart in time and, when both carry a
\* distance, at most dist_window_km apart in distance
C3_TPWithinTolerances ==
    Returned =>
        \A k \in TPs :
            /\ results[k].pred \in SurvivingPreds
            /\ results[k].cdm \in SurvivingCdms
            /\ LET p == preds[results[k].pred]
                   c == cdms[results[k].cdm]
               IN  /\ PredPair(p) = CdmPair(c)
                   /\ Abs(p.tca_utc - c.tca_utc) <= tca_window_s
                   /\ (p.min_dist_km # None /\ c.miss_distance_km # None)
                          => Abs(p.min_dist_km - c.miss_distance_km) <= dist_window_km

\* a TP at the edge of both tolerances
C3_Witness ==
    /\ Returned
    /\ \E k \in TPs :
          LET p == preds[results[k].pred]
              c == cdms[results[k].cdm]
          IN  /\ tca_window_s > 0
              /\ Abs(p.tca_utc - c.tca_utc) = tca_window_s
              /\ p.min_dist_km # None /\ c.miss_distance_km # None
              /\ Abs(p.min_dist_km - c.miss_distance_km) = dist_window_km

\* C4: every sanitized ground-truth record that no TP links and whose pair is
\* the pair of some sanitized prediction appears in exactly one FN result
C4_UnmatchedTrackedCdmIsFN ==
    Returned =>
        \A j \in SurvivingCdms :
            ((\A k \in TPs : results[k].cdm # j) /\ CdmPair(cdms[j]) \in TrackedPairs)
                => Cardinality({k \in FNs : results[k].cdm = j}) = 1

\* C5: a ground-truth record whose pair is the pair of no sanitized
\* prediction appears in no result
C5_UntrackedCdmInNoResult ==
    Returned =>
        \A j \in SurvivingCdms :
            CdmPair(cdms[j]) \notin TrackedPairs
                => \A k \in ResultIdx : results[k].cdm # j

\* an untracked ground-truth record beside an FN of a tracked pair
C5_Witness ==
    /\ Returned
    /\ \E j \in SurvivingCdms : CdmPair(cdms[j]) \notin TrackedPairs
    /\ FNs # {}

\* the record with the stored order of its two catalog ids exchanged
SwapPred(p) ==
    [p EXCEPT !.norad_id_a = p.norad_id_b, !.norad_id_b = p.norad_id_a,
              !.norad_a = p.norad_b, !.norad_b = p.norad_a]

SwapCdm(c) ==
    [c EXCEPT !.norad_primary = c.norad_secondary, !.norad_secondary = c.norad_primary]

\* the list with the record at position n replaced by r
Replaced(seq, n, r) == [i \in 1..Len(seq) |-> IF i = n THEN r ELSE seq[i]]

\* C6: exchanging the stored order of the two ids in any prediction or in any
\* ground-truth record leaves the result of match() the same: the same
\* predictions are TP and FP, linked to the same records, and the same FNs
C6_PairKeySymmetry ==
    Returned =>
        /\ \A i \in 1..Len(preds) :
              match(Replaced(preds, i, SwapPred(preds[i])), cdms,
                    tca_window_s, dist_window_km) = results
        /\ \A j \in 1..Len(cdms) :
              match(preds, Replaced(cdms, j, SwapCdm(cdms[j])),
                    tca_window_s, dist_window_km) = results

\* a TP between records that store the pair in opposite orders
C6_Witness ==
    /\ Returned
    /\ \E k \in TPs :
          LET p == preds[results[k].pred]
              c == cdms[results[k].cdm]
          IN  /\ IntOf(PredRawA(p)) # IntOf(PredRawB(p))
              /\ IntOf(PredRawA(p)) = IntOf(c.norad_secondary)
              /\ IntOf(PredRawB(p)) = IntOf(c.norad_primary)

\* C7: a record with a missing or non-integer catalog id, or a missing time
\* of closest approach, is referenced by no result
C7_InvalidRecordNeverReferenced ==
    Returned =>
        \A k \in ResultIdx :
            /\ results[k].pred # 0 =>
                  LET p == preds[results[k].pred]
                  IN  PredRawA(p).k = "int" /\ PredRawB(p).k = "int" /\ p.tca_utc # None
            /\ results[k].cdm # 0 =>
                  LET c == cdms[results[k].cdm]
                  IN  c.norad_primary.k = "int" /\ c.norad_secondary.k = "int"
                      /\ c.tca_utc # None

\* what a result list says about the prediction at position i
OutcomeOf(res, i) == {<<res[k].type, res[k].cdm>> : k \in {n \in 1..Len(res) : res[n].pred = i}}

FNCdms(res) == {res[k].cdm : k \in {n \in 1..Len(res) : res[n].type = "FN"}}

\* C8: the predictions given in any other order get the same classification
\* and the same linked ground-truth record each, and the FNs are the same
C8_PredictionOrderIndependent ==
    Returned =>
        \A s \in Permutations(1..Len(preds)) :
            LET other == match([i \in 1..Len(preds) |-> preds[s[i]]], cdms,
                               tca_window_s, dist_window_km)
            IN  /\ \A i \in 1..Len(preds) : OutcomeOf(other, i) = OutcomeOf(results, s[i])
                /\ FNCdms(other) = FNCdms(results)

\* two different predictions of one pair, one TP and one FP
C8_Witness ==
    /\ Returned
    /\ \E k1 \in TPs, k2 \in FPs :
          /\ preds[results[k1].pred] # preds[results[k2].pred]
          /\ PredPair(preds[results[k1].pred]) = PredPair(preds[results[k2].pred])

\* the ground-truth source was unavailable or failed
GtFailed == fetch_status \in {"no_creds", "fetch_failed", "normalize_failed"}

HasNote(summary) == "note" \in summary.keys

\* C9: a run whose summary carries the degradation note was matched against
\* an empty ground-truth set
C9_DegradedRunMatchedNoCdms ==
    (pc = "done" /\ HasNote(returned[1])) => cdms = <<>>

\* C10: a failure of the ground-truth source never ends the run: the run goes
\* on to match, metrics and persistence, only a failed write can stop it, and
\* the summary it returns and persists has a note exactly when the source
\* failed
C10_DegradedRunCompletesWithNote ==
    /\ GtFailed =>
          /\ note # NoNote
          /\ \/ pc \in {"match", "persist_run", "persist_summary", "done"}
             \/ pc = "raised" /\ error \in {"run_file", "summary"}
    /\ pc = "done" =>
          /\ Len(returned) = 1
          /\ latest = returned
          /\ run_file = results
          /\ HasNote(returned[1]) <=> GtFailed
          /\ HasNote(returned[1]) => returned[1].note # NoNote

\* a run that lost the source while normalizing and still returned its summary
C10_Witness ==
    /\ pc = "done"
    /\ fetch_status = "normalize_failed"
    /\ HasNote(returned[1])
    /\ preds # <<>>

\* C11: a run stopped by a failed write of the match log or of the latest
\* summary still hands the caller the metrics report it had computed
C11_WriteFailureStillDeliversMetrics ==
    (pc = "raised" /\ error \in {"run_file", "summary"}) =>
        /\ Len(returned) = 1
        /\ returned[1].metrics = [counts |-> counts(results)]

\* the complete summaries latest.json can hold: the earlier run's and each
\* concurrent run's
CompleteSummaries ==
    {payload_bytes(0, FALSE)} \cup {payload_bytes(r, w_note[r]) : r \in Runs}

\* C12: whatever the interleaving of the writers, a reader of latest.json
\* gets the complete summary of one run, never an empty or mixed file
C12_ReaderSeesCompleteSummary ==
    seen # <<>> => seen[1] \in CompleteSummaries

\* the runs that have written their match log
Logged == {r \in Runs : wpc[r] \in {"open", "dump", "done"}}

\* C13: two runs never share a run file, and the file of a run holds the
\* match results of that run and nothing else
C13_RunFilePerRun ==
    \A r \in Logged :
        /\ runs_dir[stamp[r]] = run_lines(r, w_matches[r])
        /\ \A q \in Logged \ {r} : stamp[q] # stamp[r]

\* the matches of each type in the argument of compute_metrics
TPm == {k \in 1..Len(cm_matches) : cm_matches[k].type = "TP"}

FPm == {k \in 1..Len(cm_matches) : cm_matches[k].type = "FP"}

FNm == {k \in 1..Len(cm_matches) : cm_matches[k].type = "FN"}

nTP == Cardinality(TPm)

nFP == Cardinality(FPm)

nFN == Cardinality(FNm)

One == Ratio(1, 1)

InUnit(x) == RatLe(Zero, x) /\ RatLe(x, One)

\* C14: precision is tp/max(1, tp+fp), recall is tp/max(1, tp+fn), f1 is 0
\* when both are 0 and their harmonic mean 2tp/(2tp+fp+fn) otherwise; the
\* three lie in [0, 1] and are 0 for the empty list
C14_PrecisionRecallF1 ==
    Returned =>
        LET r == cm_metrics[1]
        IN /\ r.counts = [tp |-> nTP, fp |-> nFP, fn |-> nFN]
           /\ RatEq(r.precision, Ratio(nTP, IF nTP + nFP = 0 THEN 1 ELSE nTP + nFP))
           /\ RatEq(r.recall, Ratio(nTP, IF nTP + nFN = 0 THEN 1 ELSE nTP + nFN))
           /\ IF nTP = 0
              THEN RatEq(r.f1, Zero)
              ELSE RatEq(r.f1, Ratio(2 * nTP, 2 * nTP + nFP + nFN))
           /\ InUnit(r.precision) /\ InUnit(r.recall) /\ InUnit(r.f1)
           /\ cm_matches = <<>> =>
                 RatEq(r.precision, Zero) /\ RatEq(r.recall, Zero) /\ RatEq(r.f1, Zero)

\* a report over two false positives and one true positive: precision 1/3,
\* recall 1, f1 1/2
C14_Witness ==
    /\ Returned
    /\ nTP = 1 /\ nFP = 2 /\ nFN = 0
    /\ RatEq(cm_metrics[1].precision, Ratio(1, 3))
    /\ RatEq(cm_metrics[1].recall, One)
    /\ RatEq(cm_metrics[1].f1, Ratio(1, 2))

RECURSIVE SetSum(_, _)
SetSum(S, f) ==
    IF S = {} THEN 0
    ELSE LET x == CHOOSE y \in S : TRUE IN f[x] + SetSum(S \ {x}, f)

\* the mean of f over the matches numbered in S, 0 over none
MeanOver(S, f) == IF S = {} THEN Zero ELSE Ratio(SetSum(S, f), Cardinality(S))

AbsTimeError(k) == Abs(cm_matches[k].pred.tca_utc - cm_matches[k].cdm.tca_utc)

AbsDistError(k) ==
    Abs(cm_matches[k].pred.min_dist_km - cm_matches[k].cdm.miss_distance_km)

AbsVelError(k) ==
    Abs(cm_matches[k].pred.closing_velocity_kms - cm_matches[k].cdm.rel_speed_kms)

\* the true positives whose two records both carry a distance, a velocity
BothDist ==
    {k \in TPm : /\ cm_matches[k].pred.min_dist_km # None
                 /\ cm_matches[k].cdm.miss_distance_km # None}

BothVel ==
    {k \in TPm : /\ cm_matches[k].pred.closing_velocity_kms # None
                 /\ cm_matches[k].cdm.rel_speed_kms # None}

\* C15: the time error is averaged over all true positives, the distance and
\* the velocity error over the true positives whose two records both carry
\* the field; a true positive that lacks it on a side adds nothing
C15_MaeOverTPsCarryingField ==
    Returned =>
        /\ RatEq(cm_metrics[1].mae_seconds_tca, MeanOver(TPm, [k \in TPm |-> AbsTimeError(k)]))
        /\ RatEq(cm_metrics[1].mae_km_distance, MeanOver(BothDist, [k \in BothDist |-> AbsDistError(k)]))
        /\ RatEq(cm_metrics[1].mae_kms_velocity, MeanOver(BothVel, [k \in BothVel |-> AbsVelError(k)]))

\* the risk score of the prediction of match k, 0 when it has none
ScoreOf(k) ==
    IF cm_matches[k].pred.risk_score = None THEN 0 ELSE cm_matches[k].pred.risk_score

Scored == {k \in TPm \cup FPm : cm_matches[k].pred.risk_score # None}

TPat(t) == Cardinality({k \in TPm : ScoreOf(k) >= t})

FPat(t) == Cardinality({k \in FPm : ScoreOf(k) >= t})

\* the 21 thresholds 0.00, 0.05, ..., 1.00, in hundredths
Grid == [i \in 1..21 |-> 5 * (i - 1)]

\* C16 as amended: the curve is there exactly when some TP or FP prediction
\* has a risk score; it has one point per threshold of the grid, in order;
\* precision at t is tp_t/max(1, tp_t+fp_t) and recall at t is
\* tp_t/max(1, tp+fn), with all true positives in the denominator; a
\* prediction with no score counts as score 0
C16_PRCurve ==
    Returned =>
        LET r == cm_metrics[1]
        IN /\ "pr_curve" \in r.keys <=> Scored # {}
           /\ "pr_curve" \in r.keys =>
                 /\ Len(r.pr_curve) = Len(Grid)
                 /\ \A i \in 1..Len(Grid) :
                       /\ r.pr_curve[i].thr = Grid[i]
                       /\ RatEq(r.pr_curve[i].precision,
                                Ratio(TPat(Grid[i]), max1(TPat(Grid[i]) + FPat(Grid[i]))))
                       /\ RatEq(r.pr_curve[i].recall,
                                Ratio(TPat(Grid[i]), max1(nTP + nFN)))

\* a curve over two scored true positives, one of which falls below the
\* threshold 0.50, and an unscored false positive
C16_Witness ==
    /\ Returned
    /\ "pr_curve" \in cm_metrics[1].keys
    /\ nTP = 2 /\ TPat(50) = 1
    /\ (FPm \ Scored) # {}
    /\ RatEq(cm_metrics[1].pr_curve[11].recall, Ratio(1, 2))

\* C16 as stated: when every TP and FP prediction carries a risk score, the
\* curve has one point per threshold and recall at t is tp_t/max(1, tp_t+fn)
C16_RecallOverPassingOnly ==
    (Returned /\ Scored # {} /\ Scored = TPm \cup FPm) =>
        LET r == cm_metrics[1]
        IN /\ Len(r.pr_curve) = Len(Grid)
           /\ \A i \in 1..Len(Grid) :
                 /\ r.pr_curve[i].thr = Grid[i]
                 /\ RatEq(r.pr_curve[i].precision,
                          Ratio(TPat(Grid[i]), max1(TPat(Grid[i]) + FPat(Grid[i]))))
                 /\ RatEq(r.pr_curve[i].recall,
                          Ratio(TPat(Grid[i]), max1(TPat(Grid[i]) + nFN)))

\* the sampled steps, the objects (as rows of df_tle) and their pairs
Steps == 1..Len(positions)

Objs == 1..Len(Catalog)

\* both objects propagated at step t
BothAt(i, j, t) == positions[t][i] # None /\ positions[t][j] # None

DistAt(i, j, t) == Abs(positions[t][i] - positions[t][j])

\* the steps at which objects i and j were within the radius
CloseSteps(i, j) == {t \in Steps : BothAt(i, j, t) /\ DistAt(i, j, t) <= radius_km}

\* the returned rows about the unordered pair of objects i and j
RowsOf(i, j) ==
    {row \in pairs[1] : {row.norad_id_a, row.norad_id_b} = {Catalog[i], Catalog[j]}}

\* C17: every unordered pair of distinct objects that was within the radius
\* at some sampled step has exactly one row, in one orientation; a pair that
\* never was has none; every row is about such a pair
C17_OneRowPerClosePair ==
    Returned =>
        /\ \A i \in Objs : \A j \in Objs \ {i} :
              IF CloseSteps(i, j) # {}
              THEN Cardinality(RowsOf(i, j)) = 1
              ELSE RowsOf(i, j) = {}
        /\ \A row \in pairs[1] :
              \E i \in Objs : \E j \in Objs \ {i} : row \in RowsOf(i, j)

\* a window in which one pair was close at two steps, one pair was never
\* close and one object failed to propagate at a step
C17_Witness ==
    /\ Returned
    /\ Cardinality(pairs[1]) = 1
    /\ \E i \in Objs : \E j \in Objs \ {i} : Cardinality(CloseSteps(i, j)) = 2
    /\ \E i \in Objs : \E j \in Objs \ {i} :
          CloseSteps(i, j) = {} /\ \E t \in Steps : BothAt(i, j, t)
    /\ \E i \in Objs : \E t \in Steps : positions[t][i] = None

\* C18: the distance of a row is the smallest distance of the pair over the
\* steps at which it was within the radius, and the time of the row is one of
\* the steps at which the pair was at that distance
C18_MinimumAndItsStep ==
    Returned =>
        \A i \in Objs : \A j \in Objs \ {i} : \A row \in RowsOf(i, j) :
            /\ \A t \in CloseSteps(i, j) : row.min_dist_km <= DistAt(i, j, t)
            /\ row.tca_utc \in CloseSteps(i, j)
            /\ DistAt(i, j, row.tca_utc) = row.min_dist_km

\* a pair recorded at two steps whose closest approach was at the later one
C18_Witness ==
    /\ Returned
    /\ \E i \in Objs : \E j \in Objs \ {i} : \E row \in RowsOf(i, j) :
          /\ CloseSteps(i, j) = {1, 2}
          /\ DistAt(i, j, 2) < DistAt(i, j, 1)
          /\ row.tca_utc = 2

ScoredRows == 1..Len(scored)

\* C19: the class of a row is 1 exactly when five times its distance is
\* below the scale, that is min_dist_km < 0.2 * scale; it is 0 on the
\* boundary
C19_ClassIffBelowFifthOfScale ==
    Returned =>
        \A k \in ScoredRows :
            /\ scored[k].risk_class \in {0, 1}
            /\ scored[k].risk_class = 1 <=> 5 * scored[k].min_dist_km < risk_threshold_km
            /\ 5 * scored[k].min_dist_km = risk_threshold_km => scored[k].risk_class = 0

\* a frame with a row on the boundary (class 0) and a row below it (class 1)
C19_Witness ==
    /\ Returned
    /\ \E k \in ScoredRows :
          /\ 5 * scored[k].min_dist_km = risk_threshold_km
          /\ scored[k].risk_class = 0
    /\ \E k \in ScoredRows :
          /\ scored[k].min_dist_km > 0
          /\ scored[k].risk_class = 1

C21_NormalizerFailsClosed ==
    \A j \in 1..Len(cdms) :
        /\ cdms[j].norad_primary # NoneV
        /\ cdms[j].norad_secondary # NoneV
        /\ cdms[j].tca_utc # None

\* C22: a malformed or missing pair id or timestamp in a stored prediction
\* or in a ground-truth record never makes the run fail: only a failed write
\* can stop run_validation
C22_MalformedRecordNeverFatal ==
    pc = "raised" => error \in {"run_file", "summary"}

\* the numbers of records match() drops while sanitizing
DroppedPreds(ps, cs) ==
    results_meta(ps, cs).diag.preds_in - results_meta(ps, cs).diag.preds_clean

DroppedCdms(ps, cs) ==
    results_meta(ps, cs).diag.cdms_in - results_meta(ps, cs).diag.cdms_clean

ButLast(seq) == SubSeq(seq, 1, Len(seq) - 1)

\* C23: the counts of dropped predictions and dropped ground-truth records
\* are part of what match() returns: two calls that return the same value
\* dropped the same numbers of records
C23_DropCountsSurfaced ==
    Returned =>
        /\ (preds # <<>>
              /\ match(ButLast(preds), cdms, tca_window_s, dist_window_km) = results)
           => DroppedPreds(ButLast(preds), cdms) = DroppedPreds(preds, cdms)
        /\ (cdms # <<>>
              /\ match(preds, ButLast(cdms), tca_window_s, dist_window_km) = results)
           => DroppedCdms(preds, ButLast(cdms)) = DroppedCdms(preds, cdms)

\* C24: every scored row apply_baseline produced is a line of the
\* predictions store
C24_ScoredPredictionsPersisted ==
    Returned =>
        /\ Len(pred_store) = Len(scored)
        /\ \A k \in ScoredRows : \E n \in 1..Len(pred_store) : pred_store[n] = scored[k]

\* the time difference of prediction i and ground-truth record j
TimeDiff(i, j) == Abs(preds[i].tca_utc - cdms[j].tca_utc)

\* the candidates of prediction i: the surviving records of its pair within
\* the time window
Cand(i) ==
    {j \in SurvivingCdms :
        /\ CdmPair(cdms[j]) = PredPair(preds[i])
        /\ TimeDiff(i, j) <= tca_window_s}

\* the candidate nearest in time, the first of the input among equals
IsNearest(i, j) ==
    /\ j \in Cand(i)
    /\ \A q \in Cand(i) :
          \/ TimeDiff(i, j) < TimeDiff(i, q)
          \/ TimeDiff(i, j) = TimeDiff(i, q) /\ j <= q

\* both distances are there and differ by more than the tolerance
DistRejects(i, j) ==
    /\ preds[i].min_dist_km # None
    /\ cdms[j].miss_distance_km # None
    /\ Abs(preds[i].min_dist_km - cdms[j].miss_distance_km) > dist_window_km

\* C25: the record a prediction is matched with is the candidate of its pair
\* with the smallest time difference within the window (a difference equal
\* to the window is within), the first of the input among equal differences;
\* a prediction is left unmatched only when it has no candidate or the
\* distance test rejects that one
C25_NearestCandidateFirstOnTie ==
    Returned =>
        /\ \A k \in TPs : IsNearest(results[k].pred, results[k].cdm)
        /\ \A k \in FPs :
              \/ Cand(results[k].pred) = {}
              \/ \E j \in Cand(results[k].pred) :
                    IsNearest(results[k].pred, j) /\ DistRejects(results[k].pred, j)

\* a match with the first of two candidates that are both exactly one window
\* away from the prediction
C25_Witness ==
    /\ Returned
    /\ tca_window_s > 0
    /\ \E k \in TPs : \E q \in Cand(results[k].pred) :
          /\ results[k].cdm < q
          /\ TimeDiff(results[k].pred, q) = tca_window_s
          /\ TimeDiff(results[k].pred, results[k].cdm) = tca_window_s

\* C29: the distance tolerance is tested on the nearest candidate only: when
\* it rejects that one the prediction is a false positive, whatever the other
\* candidates are
C29_DistanceTestedOnNearestOnly ==
    Returned =>
        \A k \in TPs \cup FPs : \A j \in Cand(results[k].pred) :
            (IsNearest(results[k].pred, j) /\ DistRejects(results[k].pred, j))
            => (results[k].type = "FP" /\ results[k].cdm = 0)

\* a false positive whose nearest candidate fails the distance test while
\* another candidate within the window passes it
C29_Witness ==
    /\ Returned
    /\ \E k \in FPs : \E j \in Cand(results[k].pred) : \E q \in Cand(results[k].pred) :
          /\ IsNearest(results[k].pred, j)
          /\ DistRejects(results[k].pred, j)
          /\ q # j
          /\ ~DistRejects(results[k].pred, q)

\* C26: the reduction over the steps is an order-independent fold: the rows
\* returned, tca_utc included, are determined by what the steps observed,
\* whatever the order in which the rows of the steps reach the reduction
C26_ReductionOrderIndependent ==
    Returned =>
        \A df \in min_distance_over_window(Catalog, positions, radius_km) :
            df = pairs[1]

\* C27: a failed propagation of object k at step t takes only k out of step
\* t: a pair of other objects within the radius at t has a row no farther
\* than its distance at t, so has k with any object it is within the radius
\* of at another step, and the call completes
C27_FailureDropsOneObjectAtOneStep ==
    /\ pc = "call" => min_distance_over_window(Catalog, positions, radius_km) # {}
    /\ Returned =>
          \A t \in Steps : \A k \in {o \in Objs : positions[t][o] = None} :
              /\ \A i \in Objs \ {k} : \A j \in Objs \ {k, i} :
                    t \in CloseSteps(i, j) =>
                       \E row \in RowsOf(i, j) : row.min_dist_km <= DistAt(i, j, t)
              /\ \A u \in Steps \ {t} : \A j \in Objs \ {k} :
                    u \in CloseSteps(k, j) =>
                       \E row \in RowsOf(k, j) : row.min_dist_km <= DistAt(k, j, u)

\* an object that failed at the step at which the two others were close, and
\* was itself close to one of them at the other step
C27_Witness ==
    /\ Returned
    /\ \E t \in Steps : \E k \in Objs :
          /\ positions[t][k] = None
          /\ \E i \in Objs \ {k} : \E j \in Objs \ {k, i} :
                CloseSteps(i, j) = {t} /\ RowsOf(i, j) # {}
          /\ \E u \in Steps \ {t} : \E j \in Objs \ {k} :
                u \in CloseSteps(k, j) /\ RowsOf(k, j) # {}

\* an unordered pair with its minimum distance, for every row of a frame
PairMins(df) == {<<{row.norad_id_a, row.norad_id_b}, row.min_dist_km>> : row \in df}

\* the rows of the exhaustive comparison that are within the radius
ExhaustiveWithin ==
    {row \in pairwise_min_distance_over_window(Catalog, positions) :
        row.min_dist_km <= radius_km}

\* C30: the finder returns the unordered pairs whose exhaustive minimum
\* distance over the samples is at most the radius, each once and each with
\* that minimum distance
C30_FinderAgreesWithExhaustive ==
    Returned =>
        /\ PairMins(pairs[1]) = PairMins(ExhaustiveWithin)
        /\ Cardinality(pairs[1]) = Cardinality(ExhaustiveWithin)

\* a window of two steps in which the exhaustive comparison has three pairs,
\* the finder has one of them, closest at the second step, and an object
\* failed to propagate at a step
C30_Witness ==
    /\ Returned
    /\ Cardinality(pairwise_min_distance_over_window(Catalog, positions)) = 3
    /\ Cardinality(pairs[1]) = 1
    /\ \A row \in pairs[1] : row.tca_utc = 2 /\ row.min_dist_km > 0
    /\ \E t \in Steps : \E k \in Objs : positions[t][k] = None

\* the instant a timestamp denotes when one without a zone is read as UTC
AsUtc(x) == x.wall - x.off

\* C28: every timestamp is the instant its wall clock denotes in UTC when it
\* has no zone, whatever the host's zone: the bounds, the tca of the
\* ground-truth record, and the tca of the stored prediction, which is loaded
\* exactly when that instant is inside the window
C28_NaiveTimestampsAreUtc ==
    pc = "match" =>
        /\ bounds_utc = <<AsUtc(tz_in.start), AsUtc(tz_in.end)>>
        /\ cdm_norm = <<AsUtc(tz_in.cdm)>>
        /\ pred_loaded =
              IF AsUtc(tz_in.start) <= AsUtc(tz_in.pred) /\ AsUtc(tz_in.pred) <= AsUtc(tz_in.end)
              THEN <<AsUtc(tz_in.pred)>>
              ELSE <<>>

====
